---------------------------- MODULE Spec2Model ----------------------------
(***************************************************************************)
(* CALC / keisan: arithmetic drill whose feedback is a lookahead-scheduled *)
(* drum pattern (src/assets/js/app.js).                                    *)
(*                                                                         *)
(* Times are integers in milliseconds.  The audio clock and the wall clock *)
(* advance together; every time the model stores is relative to the        *)
(* current instant (ctx.currentTime = 0), so `nextTime` holds              *)
(* nextTime - ctx.currentTime and a timer holds the delay left.            *)
(***************************************************************************)
EXTENDS Integers, Sequences, FiniteSets, TLC

(***************************************************************************)
(* Configuration (app.js:14-40)                                            *)
(***************************************************************************)
FIXED_BPM == 120
nextDelayMs == 650
unlockHihatAt == 10
unlockSnareAt == 20
lookaheadMs == 40
scheduleAheadMs == 150
stepsPerBar == 16
barsCycle == 64
bgmStageMax == 3
bgmSwitchEveryCorrect == 5
stageClearEveryCorrect == 20
muteOnWrongSteps == 4
startOffsetMs == 50

\* tick: secondsPerBeat = 60 / FIXED_BPM; secondsPerStep = secondsPerBeat / 4
secondsPerStepMs == (60000 \div FIXED_BPM) \div 4

(***************************************************************************)
(* Bounds of the model                                                     *)
(***************************************************************************)
\* correct answers accepted before the model stops crediting
MaxCorrect == 41
\* largest operand buildProblem draws (the range is diff.min .. diff.max)
MaxOperand == 1
\* lookahead periods a tick may be late by, in Spec
MaxLate == 1
\* steps the beat plays between two resets of the transport, in SpecGame
MaxSteps == 3
\* start() calls that may wait for ctx.resume() at the same time
MaxResume == 2
\* newProblem timeouts that may be pending at the same time
MaxNext == 1
\* last bar in which the model still ticks, in Spec
MaxBar == 1

\* lookahead periods the cursor may be behind the clock when a voice throws,
\* in SpecFault
MaxStall == 1
\* correct answers credited in SpecFault
MaxFaultCorrect == 10

\* last bar SpecPattern starts in, and last bar in which it still ticks
MaxPatternBar == 3

\* newProblem timeouts that may be pending at the same time, in SpecCredit
MaxPending == 2

\* null for a timer handle (window.setInterval / setTimeout ids are positive)
NULL == 0

Max(a, b) == IF a >= b THEN a ELSE b
Min(a, b) == IF a <= b THEN a ELSE b

(***************************************************************************)
(* Pure functions                                                          *)
(***************************************************************************)
difficultyForStage(stage) ==
  IF stage <= 0 THEN [min |-> 1, max |-> 20, mode |-> "sub", allowNegative |-> FALSE]
  ELSE IF stage = 1 THEN [min |-> 1, max |-> 30, mode |-> "mix", allowNegative |-> FALSE]
  ELSE IF stage = 2 THEN [min |-> 2, max |-> 30, mode |-> "mix", allowNegative |-> FALSE]
  ELSE [min |-> 2, max |-> 40 + (stage - 3) * 10, mode |-> "mix", allowNegative |-> FALSE]

\* mutant: thresholds compared with > instead of >=
computeDrumLevelLate(stageCorrect) ==
  IF stageCorrect > unlockSnareAt THEN 2
  ELSE IF stageCorrect > unlockHihatAt THEN 1
  ELSE 0

computeDrumLevel(stageCorrect) ==
  IF stageCorrect >= unlockSnareAt THEN 2
  ELSE IF stageCorrect >= unlockHihatAt THEN 1
  ELSE 0

computeBgmStage(stageCorrect) ==
  Min(stageCorrect \div bgmSwitchEveryCorrect, bgmStageMax)

\* ---- parseAnswer: the text of the answer field, a sequence of characters
Digit == [c \in {"0", "1", "2", "3", "4", "5", "6", "7", "8", "9"} |->
            CASE c = "0" -> 0 [] c = "1" -> 1 [] c = "2" -> 2 [] c = "3" -> 3
              [] c = "4" -> 4 [] c = "5" -> 5 [] c = "6" -> 6 [] c = "7" -> 7
              [] c = "8" -> 8 [] c = "9" -> 9]

RECURSIVE trimStart(_)
trimStart(s) == IF s # <<>> /\ Head(s) = " " THEN trimStart(Tail(s)) ELSE s

RECURSIVE trimEnd(_)
trimEnd(s) ==
  IF s # <<>> /\ s[Len(s)] = " " THEN trimEnd(SubSeq(s, 1, Len(s) - 1)) ELSE s

trim(s) == trimEnd(trimStart(s))

RECURSIVE digitsValue(_)
digitsValue(s) ==
  IF s = <<>> THEN 0
  ELSE 10 * digitsValue(SubSeq(s, 1, Len(s) - 1)) + Digit[s[Len(s)]]

\* /^-?\d+$/
isInteger(s) ==
  LET body == IF s # <<>> /\ Head(s) = "-" THEN Tail(s) ELSE s
  IN body # <<>> /\ \A i \in DOMAIN body : body[i] \in DOMAIN Digit

\* the result is tagged: kind is "null", "NaN" or "number"
parseAnswer(raw) ==
  LET s == trim(raw)
  IN IF s = <<>> THEN [kind |-> "null", value |-> 0]
     ELSE IF ~isInteger(s) THEN [kind |-> "NaN", value |-> 0]
     ELSE IF Head(s) = "-" THEN [kind |-> "number", value |-> 0 - digitsValue(Tail(s))]
     ELSE [kind |-> "number", value |-> digitsValue(s)]

\* ---- pickMode / buildProblem: the answers a new problem may have
pickModes(st) ==
  IF st.diff.mode # "mix" THEN {st.diff.mode}
  ELSE IF st.difficultyStage <= 0 THEN {"sub"}
  ELSE IF st.difficultyStage = 1 THEN {"add", "sub"}
  ELSE IF st.difficultyStage = 2 THEN {"add", "sub", "mul"}
  ELSE {"add", "sub", "mul", "div"}

randInt(min, max) == min .. Max(min, Min(max, MaxOperand))

buildProblem(st, mode, a, b, k) ==
  IF mode = "add" THEN a + b
  ELSE IF mode = "sub" THEN
    (IF ~st.diff.allowNegative /\ a < b THEN b - a ELSE a - b)
  ELSE IF mode = "mul" THEN a * b
  ELSE IF mode = "div" THEN k
  ELSE a + b

buildProblemAnswers(st) ==
  { buildProblem(st, mode, a, b, k) :
      mode \in pickModes(st),
      a \in randInt(st.diff.min, st.diff.max),
      b \in randInt(st.diff.min, st.diff.max),
      k \in randInt(st.diff.min, st.diff.max) }

(***************************************************************************)
(* State                                                                   *)
(***************************************************************************)
VARIABLES
  state,          \* the `state` object (app.js:95-120)
  audioCtx,       \* "none" (not created), "suspended" or "running"
  timerId,        \* handle of the lookahead interval, or NULL
  running,
  nextTime,       \* next unscheduled step time, relative to ctx.currentTime
  uiPulseTimer,   \* handle of the pending pulse timeout, or NULL
  uiPulseHits,    \* merged hit flags
  timers,         \* the window's pending timers: handle -> [kind, due]
  resumePending,  \* start() calls suspended at `await ctx.resume()`
  nextTimers,     \* pending setTimeout(newProblem, nextDelayMs) callbacks
  last,           \* the operation that ran last, with what it saw on entry
  cues,           \* cue functions the last operation called
  calls,          \* scheduleStep calls the last tick made, in order
  pulse,          \* what the last pulse timeout did
  silentSteps     \* scheduleStep calls silenced since the last mute request

vars == <<state, audioCtx, timerId, running, nextTime, uiPulseTimer, uiPulseHits,
          timers, resumePending, nextTimers, last, cues, calls, pulse, silentSteps>>

noHits == [kick |-> FALSE, snare |-> FALSE]
noTimers == [i \in {} |-> [kind |-> "tick", due |-> 0]]

\* a fresh timer handle
newHandle(tm) == CHOOSE i \in 1 .. (Cardinality(DOMAIN tm) + 1) : i \notin DOMAIN tm

setTimer(tm, id, kind, due) == tm @@ (id :> [kind |-> kind, due |-> due])
clearTimer(tm, id) == [i \in (DOMAIN tm) \ {id} |-> tm[i]]

(***************************************************************************)
(* Game logic.  The operators take and return g = [st, cues]: the `state`  *)
(* object and the set of cue functions called so far.                      *)
(***************************************************************************)
resetTransport(st) == [st EXCEPT !.step = 0, !.barCounter = 0]

\* mutant: the BGM switch does not reset the transport
setBgmStageKeepsTransport(g) ==
  LET next == computeBgmStage(g.st.stageCorrect)
  IN IF next = g.st.bgmStage THEN g
     ELSE [st |-> [g.st EXCEPT !.bgmStage = next],
           cues |-> g.cues \cup {"playBgmSwitchSe"}]

setBgmStageFromStageCorrect(g) ==
  LET next == computeBgmStage(g.st.stageCorrect)
  IN IF next = g.st.bgmStage THEN g
     ELSE [st |-> resetTransport([g.st EXCEPT !.bgmStage = next]),
           cues |-> g.cues \cup {"playBgmSwitchSe"}]

\* mutant: the beat level survives the stage clear
stageClearKeepsBeat(g) ==
  LET stage == g.st.difficultyStage + 1
  IN [st |-> resetTransport([g.st EXCEPT !.difficultyStage = stage,
                                         !.diff = difficultyForStage(stage),
                                         !.stageCorrect = 0,
                                         !.bgmStage = 0]),
      cues |-> g.cues \cup {"playStageClearSe"}]

\* mutant: the stage clear leaves the per-stage counter
stageClearKeepsCount(g) ==
  LET stage == g.st.difficultyStage + 1
  IN [st |-> resetTransport([g.st EXCEPT !.difficultyStage = stage,
                                         !.diff = difficultyForStage(stage),
                                         !.drumLevel = 0,
                                         !.bgmStage = 0]),
      cues |-> g.cues \cup {"playStageClearSe"}]

stageClear(g) ==
  LET stage == g.st.difficultyStage + 1
  IN [st |-> resetTransport([g.st EXCEPT !.difficultyStage = stage,
                                         !.diff = difficultyForStage(stage),
                                         !.stageCorrect = 0,
                                         !.drumLevel = 0,
                                         !.bgmStage = 0]),
      cues |-> g.cues \cup {"playStageClearSe"}]

\* mutant: the stage-clear test reads correctTotal before it is incremented
updateOnCorrectTestsFirst(g) ==
  LET counted == [g.st EXCEPT !.correctTotal = @ + 1, !.stageCorrect = @ + 1]
      grown == setBgmStageFromStageCorrect(
                 [g EXCEPT !.st = [counted EXCEPT
                                     !.drumLevel = computeDrumLevel(counted.stageCorrect)]])
  IN IF g.st.correctTotal % stageClearEveryCorrect = 0
     THEN stageClear(grown)
     ELSE grown

updateOnCorrect(g) ==
  LET counted == [g.st EXCEPT !.correctTotal = @ + 1, !.stageCorrect = @ + 1]
      grown == setBgmStageFromStageCorrect(
                 [g EXCEPT !.st = [counted EXCEPT
                                     !.drumLevel = computeDrumLevel(counted.stageCorrect)]])
  IN IF grown.st.correctTotal % stageClearEveryCorrect = 0
     THEN stageClear(grown)
     ELSE grown

\* mutant: the difficulty stage and its profile survive the reset
resetProgressionKeepsStage(st) ==
  resetTransport([st EXCEPT !.correctTotal = 0,
                            !.stageCorrect = 0,
                            !.drumLevel = 0,
                            !.bgmStage = 0])

resetProgression(st) ==
  resetTransport([st EXCEPT !.correctTotal = 0,
                            !.stageCorrect = 0,
                            !.difficultyStage = 0,
                            !.diff = difficultyForStage(0),
                            !.drumLevel = 0,
                            !.bgmStage = 0])

\* mutant: the mute request does not ask whether the beat is running
playWrongFxAnyTime(st, isRunning) ==
  IF st.soundEnabled
  THEN [st EXCEPT !.muteSteps = muteOnWrongSteps]
  ELSE st

\* playWrongFx: the mute request (the effects and the sound are not state)
playWrongFx(st, isRunning) ==
  IF st.soundEnabled /\ isRunning
  THEN [st EXCEPT !.muteSteps = muteOnWrongSteps]
  ELSE st

(***************************************************************************)
(* Drum engine.  scheduleStep and queueUiPulse take and return             *)
(* e = [st, timers, uiPulseTimer, uiPulseHits, calls, silent].             *)
(***************************************************************************)
\* mutant: the bar counter does not wrap
advanceTransportNoWrap(st) ==
  IF st.step + 1 >= stepsPerBar
  THEN [st EXCEPT !.step = 0, !.barCounter = st.barCounter + 1]
  ELSE [st EXCEPT !.step = st.step + 1]

advanceTransport(st) ==
  IF st.step + 1 >= stepsPerBar
  THEN [st EXCEPT !.step = 0, !.barCounter = (st.barCounter + 1) % barsCycle]
  ELSE [st EXCEPT !.step = st.step + 1]

kickHit(st) ==
  \/ st.step % 4 = 0
  \/ st.bgmStage >= 1 /\ (st.step = 10 \/ st.step = 14)
  \/ st.bgmStage >= 2 /\ st.step = 7
  \/ st.bgmStage >= 3 /\ (st.step = 3 \/ st.step = 11)

hatHit(st) ==
  st.drumLevel >= 1 /\ (IF st.bgmStage >= 3 THEN TRUE ELSE st.step % 2 = 0)

\* mutant: the fill on step 15 is played in every bar
snareHitEveryBar(st) ==
  st.drumLevel >= 2 /\
    \/ st.step = 4 \/ st.step = 12
    \/ st.bgmStage >= 3 /\ st.step = 15

snareHit(st) ==
  st.drumLevel >= 2 /\
    \/ st.step = 4 \/ st.step = 12
    \/ st.bgmStage >= 3 /\ st.step = 15 /\ st.barCounter % 4 = 3

\* the record of one scheduleStep call: what it saw (time, step, barCounter,
\* muteSteps), the voices it triggered, and what queueUiPulse did: timer is
\* "none" (not called), "new" (it set a timeout, due at this step's time) or
\* "merged" (a timeout was pending), hits the merged flags it left
stepCall(st, time, muted, kick, hat, snare, timer, hits) ==
  [time |-> time, step |-> st.step, barCounter |-> st.barCounter,
   muteSteps |-> st.muteSteps, muted |-> muted,
   kick |-> kick, hat |-> hat, snare |-> snare, timer |-> timer, hits |-> hits]

\* mutant: no `if (uiPulseTimer != null) return`, a timeout for every call
queueUiPulseEveryCall(e, time, hits) ==
  LET merged == [kick |-> e.uiPulseHits.kick \/ hits.kick,
                 snare |-> e.uiPulseHits.snare \/ hits.snare]
      id == newHandle(e.timers)
  IN [e EXCEPT !.uiPulseHits = merged,
               !.uiPulseTimer = id,
               !.timers = setTimer(e.timers, id, "pulse", Max(0, time))]

queueUiPulse(e, time, hits) ==
  LET merged == [kick |-> e.uiPulseHits.kick \/ hits.kick,
                 snare |-> e.uiPulseHits.snare \/ hits.snare]
      id == newHandle(e.timers)
  IN IF e.uiPulseTimer # NULL
     THEN [e EXCEPT !.uiPulseHits = merged]
     ELSE [e EXCEPT !.uiPulseHits = merged,
                    !.uiPulseTimer = id,
                    !.timers = setTimer(e.timers, id, "pulse", Max(0, time))]

\* mutant: a silent step does not advance the transport
scheduleStepMuteStalls(e, time) ==
  IF e.st.muteSteps > 0
  THEN [e EXCEPT !.st = [e.st EXCEPT !.muteSteps = @ - 1],
                 !.calls = Append(@, stepCall(e.st, time, TRUE, FALSE, FALSE, FALSE,
                                              "none", e.uiPulseHits)),
                 !.silent = @ + 1]
  ELSE LET kick == kickHit(e.st)
           hat == hatHit(e.st)
           snare == snareHit(e.st)
           queued == IF kick \/ snare
                     THEN queueUiPulse(e, time, [kick |-> kick, snare |-> snare])
                     ELSE e
           timer == IF ~(kick \/ snare) THEN "none"
                    ELSE IF queued.timers # e.timers THEN "new" ELSE "merged"
       IN [queued EXCEPT !.st = advanceTransport(e.st),
                         !.calls = Append(@, stepCall(e.st, time, FALSE, kick, hat, snare,
                                                      timer, queued.uiPulseHits))]

\* mutant: a silent step does not use up the mute window
scheduleStepMuteForever(e, time) ==
  IF e.st.muteSteps > 0
  THEN [e EXCEPT !.st = advanceTransport(e.st),
                 !.calls = Append(@, stepCall(e.st, time, TRUE, FALSE, FALSE, FALSE,
                                              "none", e.uiPulseHits)),
                 !.silent = 0]
  ELSE LET kick == kickHit(e.st)
           hat == hatHit(e.st)
           snare == snareHit(e.st)
           queued == IF kick \/ snare
                     THEN queueUiPulse(e, time, [kick |-> kick, snare |-> snare])
                     ELSE e
           timer == IF ~(kick \/ snare) THEN "none"
                    ELSE IF queued.timers # e.timers THEN "new" ELSE "merged"
       IN [queued EXCEPT !.st = advanceTransport(e.st),
                         !.calls = Append(@, stepCall(e.st, time, FALSE, kick, hat, snare,
                                                      timer, queued.uiPulseHits))]

scheduleStep(e, time) ==
  IF e.st.muteSteps > 0
  THEN [e EXCEPT !.st = advanceTransport([e.st EXCEPT !.muteSteps = @ - 1]),
                 !.calls = Append(@, stepCall(e.st, time, TRUE, FALSE, FALSE, FALSE,
                                              "none", e.uiPulseHits)),
                 !.silent = @ + 1]
  ELSE LET kick == kickHit(e.st)
           hat == hatHit(e.st)
           snare == snareHit(e.st)
           queued == IF kick \/ snare
                     THEN queueUiPulse(e, time, [kick |-> kick, snare |-> snare])
                     ELSE e
           timer == IF ~(kick \/ snare) THEN "none"
                    ELSE IF queued.timers # e.timers THEN "new" ELSE "merged"
       IN [queued EXCEPT !.st = advanceTransport(e.st),
                         !.calls = Append(@, stepCall(e.st, time, FALSE, kick, hat, snare,
                                                      timer, queued.uiPulseHits))]

\* mutant: the loop also schedules the step that lies on the horizon
RECURSIVE tickLoopOnHorizon(_, _)
tickLoopOnHorizon(e, nt) ==
  IF nt <= 0 + scheduleAheadMs
  THEN tickLoopOnHorizon(scheduleStep(e, nt), nt + secondsPerStepMs)
  ELSE [e |-> e, nextTime |-> nt]

\* tick's while loop; nt is nextTime
RECURSIVE tickLoop(_, _)
tickLoop(e, nt) ==
  IF nt < 0 + scheduleAheadMs
  THEN tickLoop(scheduleStep(e, nt), nt + secondsPerStepMs)
  ELSE [e |-> e, nextTime |-> nt]

\* tick's while loop when the Web Audio calls of a voice throw in its call
\* number n + 1: scheduleStep has no try/catch, so the exception leaves it
\* before `state.step += 1`, and tick has none, so it leaves the loop before
\* `nextTime += secondsPerStep`.  voice is the function that throws; the log
\* gets the call with the voices it had called.  threw is FALSE when the
\* loop ends, or voice is not called, before that.
RECURSIVE tickLoopThrows(_, _, _, _)
tickLoopThrows(e, nt, n, voice) ==
  IF ~(nt < 0 + scheduleAheadMs)
  THEN [threw |-> FALSE, e |-> e, nextTime |-> nt]
  ELSE IF n > 0
  THEN tickLoopThrows(scheduleStep(e, nt), nt + secondsPerStepMs, n - 1, voice)
  ELSE LET kick == kickHit(e.st)
           hat == hatHit(e.st)
           snare == snareHit(e.st)
           called == /\ e.st.muteSteps = 0
                     /\ \/ voice = "playKick" /\ kick
                        \/ voice = "playHihat" /\ hat
                        \/ voice = "playSnare" /\ snare
       IN [threw |-> called,
           e |-> [e EXCEPT !.calls =
                    Append(@, stepCall(e.st, nt, FALSE, kick,
                                       hat /\ voice # "playKick",
                                       snare /\ voice = "playSnare",
                                       "none", e.uiPulseHits))],
           nextTime |-> nt]

(***************************************************************************)
(* Initial state (app.js:95-120, 316-321, 430-431, 719-726)                *)
(***************************************************************************)
state0 ==
  [currentAnswer |-> 0, correctTotal |-> 0, stageCorrect |-> 0, difficultyStage |-> 0,
   drumLevel |-> 0, bgmStage |-> 0, muteSteps |-> 0, step |-> 0, barCounter |-> 0,
   soundEnabled |-> FALSE, diff |-> difficultyForStage(0)]

\* what an operation saw on entry
entry(op) ==
  [op |-> op, running |-> running, difficultyStage |-> state.difficultyStage,
   pulsePending |-> uiPulseTimer # NULL]

Init ==
  /\ \E answer \in buildProblemAnswers(state0) :
       state = [state0 EXCEPT !.currentAnswer = answer,
                              !.drumLevel = computeDrumLevel(state0.stageCorrect),
                              !.bgmStage = computeBgmStage(state0.stageCorrect)]
  /\ audioCtx = "none"
  /\ timerId = NULL
  /\ running = FALSE
  /\ nextTime = 0
  /\ uiPulseTimer = NULL
  /\ uiPulseHits = noHits
  /\ timers = noTimers
  /\ resumePending = 0
  /\ nextTimers = 0
  /\ last = [op |-> "init", running |-> FALSE, difficultyStage |-> 0,
             pulsePending |-> FALSE]
  /\ cues = {}
  /\ calls = <<>>
  /\ pulse = "none"
  /\ silentSteps = 0

\* the inputs of the pattern: scheduleStep reads step, barCounter, bgmStage
\* and drumLevel, drawn here from the ranges the functions that write them
\* have (computeBgmStage, computeDrumLevel, the transport)
InitPattern ==
  /\ \E answer \in buildProblemAnswers(state0),
        step \in 0 .. stepsPerBar - 1,
        barCounter \in 0 .. MaxPatternBar,
        bgmStage \in {computeBgmStage(n) : n \in 0 .. stageClearEveryCorrect},
        drumLevel \in {computeDrumLevel(n) : n \in 0 .. stageClearEveryCorrect} :
       state = [state0 EXCEPT !.currentAnswer = answer,
                              !.step = step,
                              !.barCounter = barCounter,
                              !.bgmStage = bgmStage,
                              !.drumLevel = drumLevel]
  /\ audioCtx = "none"
  /\ timerId = NULL
  /\ running = FALSE
  /\ nextTime = 0
  /\ uiPulseTimer = NULL
  /\ uiPulseHits = noHits
  /\ timers = noTimers
  /\ resumePending = 0
  /\ nextTimers = 0
  /\ last = [op |-> "init", running |-> FALSE, difficultyStage |-> 0,
             pulsePending |-> FALSE]
  /\ cues = {}
  /\ calls = <<>>
  /\ pulse = "none"
  /\ silentSteps = 0

\* what the operations other than the tick and the pulse timeout leave
Quiet == calls' = <<>> /\ pulse' = "none"

engineVars == <<audioCtx, timerId, running, nextTime, uiPulseTimer, uiPulseHits,
                timers, resumePending>>

(***************************************************************************)
(* The answer field: what the player may have typed                        *)
(***************************************************************************)
RECURSIVE decimal(_)
decimal(n) ==
  LET d == CHOOSE c \in DOMAIN Digit : Digit[c] = n % 10
  IN IF n < 10 THEN <<d>> ELSE Append(decimal(n \div 10), d)

answerInputs(answer) ==
  { <<>>, <<" ">>, <<"a">>, <<"-">>, <<"1", "a">>, <<"1", " ", "2">>, <<"1", ".", "5">>,
    decimal(answer), <<" ">> \o decimal(answer) \o <<" ">>, <<"0">> \o decimal(answer),
    decimal(answer + 1), <<"-">> \o decimal(answer + 1), decimal(answer + 10) }

(***************************************************************************)
(* Operations                                                              *)
(***************************************************************************)
\* mutant: an empty or invalid input is answered like a wrong answer
CheckAnswerInvalidCountsAsWrong(raw) ==
  /\ parseAnswer(raw).kind \in {"null", "NaN"}
  /\ state' = playWrongFx(resetProgression(state), running)
  /\ last' = entry("invalid")
  /\ cues' = {"playWrongFx"}
  /\ Quiet
  /\ UNCHANGED <<engineVars, nextTimers, silentSteps>>

\* checkAnswer, empty or invalid input
CheckAnswerInvalid(raw) ==
  /\ parseAnswer(raw).kind \in {"null", "NaN"}
  /\ last' = entry("invalid")
  /\ cues' = {}
  /\ Quiet
  /\ UNCHANGED <<state, engineVars, nextTimers, silentSteps>>

\* checkAnswer, v === state.currentAnswer
CheckAnswerCorrect(raw) ==
  LET v == parseAnswer(raw)
      g == updateOnCorrect([st |-> state, cues |-> {}])
  IN /\ v.kind = "number"
     /\ v.value = state.currentAnswer
     /\ state' = g.st
     /\ cues' = g.cues \cup {"playCorrectFx"}
     /\ nextTimers' = nextTimers + 1
     /\ last' = entry("correct")
     /\ Quiet
     /\ UNCHANGED <<engineVars, silentSteps>>

\* checkAnswer, a number that is not the answer
CheckAnswerWrong(raw) ==
  LET v == parseAnswer(raw)
      st == playWrongFx(resetProgression(state), running)
  IN /\ v.kind = "number"
     /\ v.value # state.currentAnswer
     /\ state' = st
     /\ cues' = {"playWrongFx"}
     /\ silentSteps' = IF st.muteSteps # state.muteSteps THEN 0 ELSE silentSteps
     /\ last' = entry("wrong")
     /\ Quiet
     /\ UNCHANGED <<engineVars, nextTimers>>

\* newProblem, from the timeout a correct answer set
NewProblem ==
  /\ nextTimers > 0
  /\ nextTimers' = nextTimers - 1
  /\ \E answer \in buildProblemAnswers(state) :
       state' = [state EXCEPT !.currentAnswer = answer]
  /\ last' = entry("newProblem")
  /\ cues' = {}
  /\ Quiet
  /\ UNCHANGED <<engineVars, silentSteps>>

\* resetAll: the reset button
ResetAll ==
  /\ \E answer \in buildProblemAnswers(resetProgression(state)) :
       state' = [resetProgression(state) EXCEPT !.currentAnswer = answer]
  /\ last' = entry("reset")
  /\ cues' = {}
  /\ Quiet
  /\ UNCHANGED <<engineVars, nextTimers, silentSteps>>

\* the SFX toggle
SoundToggle ==
  /\ state' = [state EXCEPT !.soundEnabled = ~@]
  /\ last' = entry("soundToggle")
  /\ cues' = {}
  /\ Quiet
  /\ UNCHANGED <<engineVars, nextTimers, silentSteps>>

\* ensureCtx: a context created now is suspended or running, as the
\* platform's autoplay policy decides
ensureCtx(created) == IF audioCtx = "none" THEN created ELSE audioCtx

\* mutant: no `if (running) return`
startBodyUnguarded ==
  LET id == newHandle(timers)
  IN /\ running' = TRUE
     /\ nextTime' = 0 + startOffsetMs
     /\ timers' = setTimer(timers, id, "tick", lookaheadMs)
     /\ timerId' = id

\* start() after the await: lines 535-541
startBody ==
  IF running
  THEN UNCHANGED <<timerId, running, nextTime, timers>>
  ELSE LET id == newHandle(timers)
       IN /\ running' = TRUE
          /\ nextTime' = 0 + startOffsetMs
          /\ timers' = setTimer(timers, id, "tick", lookaheadMs)
          /\ timerId' = id

\* mutant: start() does not wait for ctx.resume()
startWithoutAwait(created) ==
  /\ audioCtx' = ensureCtx(created)
  /\ UNCHANGED resumePending
  /\ startBody
  /\ UNCHANGED <<uiPulseTimer, uiPulseHits>>

\* start() up to the await: lines 532-534
start(created) ==
  /\ audioCtx' = ensureCtx(created)
  /\ IF ensureCtx(created) = "suspended"
     THEN /\ resumePending' = resumePending + 1
          /\ UNCHANGED <<timerId, running, nextTime, timers>>
     ELSE /\ UNCHANGED resumePending
          /\ startBody
  /\ UNCHANGED <<uiPulseTimer, uiPulseHits>>

\* mutant: the pending pulse timeout is not cleared
stopKeepsPulse ==
  /\ timers' = IF timerId # NULL /\ timerId \in DOMAIN timers
               THEN clearTimer(timers, timerId) ELSE timers
  /\ timerId' = NULL
  /\ running' = FALSE
  /\ uiPulseTimer' = NULL
  /\ uiPulseHits' = noHits
  /\ UNCHANGED <<audioCtx, nextTime, resumePending>>

stop ==
  /\ timers' = LET cleared == IF timerId # NULL /\ timerId \in DOMAIN timers
                              THEN clearTimer(timers, timerId) ELSE timers
               IN IF uiPulseTimer # NULL /\ uiPulseTimer \in DOMAIN cleared
                  THEN clearTimer(cleared, uiPulseTimer) ELSE cleared
  /\ timerId' = NULL
  /\ running' = FALSE
  /\ uiPulseTimer' = NULL
  /\ uiPulseHits' = noHits
  /\ UNCHANGED <<audioCtx, nextTime, resumePending>>

\* drum.start(), called on the engine
Start(created) ==
  /\ start(created)
  /\ last' = entry("start")
  /\ cues' = {}
  /\ Quiet
  /\ UNCHANGED <<state, nextTimers, silentSteps>>

\* drum.stop(), called on the engine
Stop ==
  /\ stop
  /\ last' = entry("stop")
  /\ cues' = {}
  /\ Quiet
  /\ UNCHANGED <<state, nextTimers, silentSteps>>

\* the BGM toggle's click handler
DrumToggle(created) ==
  /\ IF ~running
     THEN start(created)
     ELSE stop
  /\ last' = entry("drumToggle")
  /\ cues' = {}
  /\ Quiet
  /\ UNCHANGED <<state, nextTimers, silentSteps>>

\* ctx.resume() resolved: one waiting start() goes on
ResumeResolved ==
  /\ resumePending > 0
  /\ resumePending' = resumePending - 1
  /\ audioCtx' = "running"
  /\ startBody
  /\ last' = entry("resumed")
  /\ cues' = {}
  /\ Quiet
  /\ UNCHANGED <<state, uiPulseTimer, uiPulseHits, nextTimers, silentSteps>>

\* ctx.resume() rejected: the waiting start() throws
ResumeRejected ==
  /\ resumePending > 0
  /\ audioCtx = "suspended"
  /\ resumePending' = resumePending - 1
  /\ last' = entry("resumeFailed")
  /\ cues' = {}
  /\ Quiet
  /\ UNCHANGED <<state, audioCtx, timerId, running, nextTime, uiPulseTimer,
                 uiPulseHits, timers, nextTimers, silentSteps>>

\* time d passes: every pending timer is d closer (a late timer stays due)
elapse(tm, d) == [i \in DOMAIN tm |-> [tm[i] EXCEPT !.due = Max(0, @ - d)]]

\* the timer the window fires next: none is due before it
firesNext(id) ==
  /\ id \in DOMAIN timers
  /\ \A j \in DOMAIN timers : timers[id].due <= timers[j].due

\* the lookahead interval fires, `late` ms after it fell due: tick
Tick(id, late) ==
  /\ firesNext(id)
  /\ timers[id].kind = "tick"
  /\ LET d == timers[id].due + late
         r == tickLoop([st |-> state, timers |-> elapse(timers, d),
                        uiPulseTimer |-> uiPulseTimer, uiPulseHits |-> uiPulseHits,
                        calls |-> <<>>, silent |-> silentSteps], nextTime - d)
     IN /\ state' = r.e.st
        /\ timers' = [r.e.timers EXCEPT ![id].due = lookaheadMs]
        /\ uiPulseTimer' = r.e.uiPulseTimer
        /\ uiPulseHits' = r.e.uiPulseHits
        /\ calls' = r.e.calls
        /\ silentSteps' = r.e.silent
        /\ nextTime' = r.nextTime
  /\ last' = entry("tick")
  /\ cues' = {}
  /\ pulse' = "none"
  /\ UNCHANGED <<audioCtx, timerId, running, resumePending, nextTimers>>

\* the lookahead interval fires and a voice throws in call n + 1 of the
\* tick: the exception leaves the interval's callback, the interval stays set
TickThrows(id, n, voice) ==
  /\ firesNext(id)
  /\ timers[id].kind = "tick"
  /\ LET d == timers[id].due
         r == tickLoopThrows([st |-> state, timers |-> elapse(timers, d),
                              uiPulseTimer |-> uiPulseTimer, uiPulseHits |-> uiPulseHits,
                              calls |-> <<>>, silent |-> silentSteps],
                             nextTime - d, n, voice)
     IN /\ r.threw
        /\ state' = r.e.st
        /\ timers' = [r.e.timers EXCEPT ![id].due = lookaheadMs]
        /\ uiPulseTimer' = r.e.uiPulseTimer
        /\ uiPulseHits' = r.e.uiPulseHits
        /\ calls' = r.e.calls
        /\ silentSteps' = r.e.silent
        /\ nextTime' = r.nextTime
  /\ last' = entry("tickThrew")
  /\ cues' = {}
  /\ pulse' = "none"
  /\ UNCHANGED <<audioCtx, timerId, running, resumePending, nextTimers>>

\* the pulse timeout fires: lines 444-470
UiPulse(id) ==
  /\ firesNext(id)
  /\ timers[id].kind = "pulse"
  /\ timers' = clearTimer(elapse(timers, timers[id].due), id)
  /\ nextTime' = nextTime - timers[id].due
  /\ uiPulseTimer' = NULL
  /\ uiPulseHits' = noHits
  /\ pulse' = IF ~running THEN "discarded"
              ELSE IF uiPulseHits.kick /\ uiPulseHits.snare THEN "kick+snare"
              ELSE IF uiPulseHits.kick THEN "kick"
              ELSE IF uiPulseHits.snare THEN "snare"
              ELSE "empty"
  /\ last' = entry("pulse")
  /\ cues' = {}
  /\ calls' = <<>>
  /\ UNCHANGED <<state, audioCtx, timerId, running, resumePending,
                 nextTimers, silentSteps>>

\* the place in the pattern, in steps
position == state.barCounter * stepsPerBar + state.step

(***************************************************************************)
(* Specifications                                                          *)
(***************************************************************************)
\* the game: the progression, with the beat running for a few steps
NextGame ==
  \/ \E raw \in answerInputs(state.currentAnswer) : CheckAnswerInvalid(raw)
  \/ \E raw \in answerInputs(state.currentAnswer) :
       state.correctTotal < MaxCorrect /\ nextTimers < MaxNext /\ CheckAnswerCorrect(raw)
  \/ \E raw \in answerInputs(state.currentAnswer) : CheckAnswerWrong(raw)
  \/ NewProblem
  \/ ResetAll
  \/ DrumToggle("running")
  \/ \E id \in DOMAIN timers : position < MaxSteps /\ Tick(id, 0)
  \/ \E id \in DOMAIN timers : UiPulse(id)

SpecGame == Init /\ [][NextGame]_vars

\* the sequencer: the beat, the mute window, start and stop
Next ==
  \/ \E raw \in answerInputs(state.currentAnswer) : CheckAnswerWrong(raw)
  \/ ResetAll
  \/ SoundToggle
  \/ \E created \in {"suspended", "running"} :
       resumePending < MaxResume /\ Start(created)
  \/ Stop
  \/ \E created \in {"suspended", "running"} :
       resumePending < MaxResume /\ DrumToggle(created)
  \/ ResumeResolved
  \/ ResumeRejected
  \/ \E id \in DOMAIN timers, k \in 0 .. MaxLate :
       state.barCounter <= MaxBar /\ Tick(id, k * lookaheadMs)
  \/ \E id \in DOMAIN timers : UiPulse(id)

Spec == Init /\ [][Next]_vars

\* the beat left running through the whole cycle of bars: the BGM toggle,
\* the SFX toggle, wrong answers, on-time ticks and the pulse timeouts
NextBeat ==
  \/ DrumToggle("running")
  \/ SoundToggle
  \/ \E raw \in answerInputs(state.currentAnswer) : CheckAnswerWrong(raw)
  \/ \E id \in DOMAIN timers : Tick(id, 0)
  \/ \E id \in DOMAIN timers : UiPulse(id)

SpecBeat == Init /\ [][NextBeat]_vars

\* the beat with voices that may throw, over the first beat levels
NextFault ==
  \/ \E raw \in answerInputs(state.currentAnswer) :
       state.correctTotal < MaxFaultCorrect /\ nextTimers < MaxNext /\ CheckAnswerCorrect(raw)
  \/ NewProblem
  \/ DrumToggle("running")
  \/ \E id \in DOMAIN timers : position < MaxSteps /\ Tick(id, 0)
  \/ \E id \in DOMAIN timers, n \in 0 .. 1, voice \in {"playKick", "playHihat", "playSnare"} :
       /\ position < MaxSteps
       /\ nextTime >= 0 - MaxStall * lookaheadMs
       /\ TickThrows(id, n, voice)
  \/ \E id \in DOMAIN timers : UiPulse(id)

SpecFault == Init /\ [][NextFault]_vars

\* the pattern: the beat started on each input and run for some bars
NextPattern ==
  \/ DrumToggle("running")
  \/ \E id \in DOMAIN timers : state.barCounter <= MaxPatternBar /\ Tick(id, 0)
  \/ \E id \in DOMAIN timers : UiPulse(id)

SpecPattern == InitPattern /\ [][NextPattern]_vars

\* the answer form alone: submissions may follow each other before the
\* newProblem timeout of the first has fired (the field keeps its text and
\* the form stays enabled during nextDelayMs)
NextCredit ==
  \/ \E raw \in answerInputs(state.currentAnswer) : CheckAnswerInvalid(raw)
  \/ \E raw \in answerInputs(state.currentAnswer) :
       state.correctTotal < MaxCorrect /\ nextTimers < MaxPending /\ CheckAnswerCorrect(raw)
  \/ \E raw \in answerInputs(state.currentAnswer) : CheckAnswerWrong(raw)
  \/ NewProblem
  \/ ResetAll

SpecCredit == Init /\ [][NextCredit]_vars

\* the lookahead interval fires on time
TickOnTime == \E id \in DOMAIN timers : Tick(id, 0)

\* the pending pulse timeout fires
PulseFires == \E id \in DOMAIN timers : UiPulse(id)

\* the beat once started: the SFX toggle, wrong answers with the SFX on
\* (those that request the mute window), ticks and pulse timeouts.  The
\* window fires an interval that is set and a timeout that is due: weak
\* fairness on both.
NextLive ==
  \/ ~running /\ DrumToggle("running")
  \/ SoundToggle
  \/ \E raw \in answerInputs(state.currentAnswer) :
       state.soundEnabled /\ CheckAnswerWrong(raw)
  \/ TickOnTime
  \/ PulseFires

SpecLive == Init /\ [][NextLive]_vars /\ WF_vars(TickOnTime) /\ WF_vars(PulseFires)

(***************************************************************************)
(* Claims                                                                  *)
(***************************************************************************)
stageCleared == "playStageClearSe" \in cues

\* C1: in a run of consecutive correct answers from the initial state
\* (correctTotal counts them) the beat level is KICK through the 9th answer,
\* KICK_HAT from the 10th to the 19th, and KICK_HAT_SNARE at the 20th.
C1_BeatGrowsToSnare ==
  /\ state.correctTotal <= 9 => state.drumLevel = 0
  /\ state.correctTotal \in 10 .. 19 => state.drumLevel = 1
  /\ state.correctTotal = 20 => state.drumLevel = 2

\* C2: a wrong answer leaves every counter of the progression, the beat
\* level, the BGM variation and the transport at their initial values and
\* the difficulty profile at difficultyForStage(0), whatever the state before.
C2_WrongResets ==
  last.op = "wrong" =>
    /\ state.correctTotal = 0
    /\ state.stageCorrect = 0
    /\ state.difficultyStage = 0
    /\ state.drumLevel = 0
    /\ state.bgmStage = 0
    /\ state.diff = difficultyForStage(0)
    /\ state.step = 0
    /\ state.barCounter = 0

C2_Witness == last.op = "wrong" /\ last.difficultyStage >= 1

\* C3: an operation triggers stageClear() exactly when it is a correct
\* answer whose incremented correctTotal is positive and a multiple of 20.
C3_StageClearIff ==
  stageCleared <=>
    (last.op = "correct" /\ state.correctTotal > 0 /\ state.correctTotal % 20 = 0)

C3_Witness == stageCleared /\ state.correctTotal = 40

\* C4: a step on which the stage clear fires raises difficultyStage by
\* exactly 1, sets the profile to difficultyForStage of the new stage, zeroes
\* stageCorrect, drumLevel, bgmStage and the transport, and leaves
\* correctTotal at its incremented value.
C4_StageClearEffect ==
  [][stageCleared' =>
       /\ state'.difficultyStage = state.difficultyStage + 1
       /\ state'.diff = difficultyForStage(state.difficultyStage + 1)
       /\ state'.stageCorrect = 0
       /\ state'.drumLevel = 0
       /\ state'.bgmStage = 0
       /\ state'.step = 0
       /\ state'.barCounter = 0
       /\ state'.correctTotal = state.correctTotal + 1]_vars

C4_Witness == stageCleared /\ state.correctTotal = 20 /\ state.difficultyStage = 1

\* the state a scheduleStep call left: the next call's entry, or the state
callLeft(i) ==
  IF i < Len(calls)
  THEN [step |-> calls[i + 1].step, barCounter |-> calls[i + 1].barCounter,
        muteSteps |-> calls[i + 1].muteSteps]
  ELSE [step |-> state.step, barCounter |-> state.barCounter,
        muteSteps |-> state.muteSteps]

\* C5: once a mute window of 4 steps is requested, exactly the next 4
\* scheduleStep calls are silent (no voice, no pulse queued), each lowers
\* muteSteps by exactly 1 and still advances the transport by one step, and a
\* call that finds muteSteps = 0 is not silenced.
C5_MuteWindow ==
  /\ \A i \in DOMAIN calls :
       LET c == calls[i]
           next == callLeft(i)
       IN /\ c.muteSteps > 0 =>
               /\ c.muted /\ ~c.kick /\ ~c.hat /\ ~c.snare /\ c.timer = "none"
               /\ next.muteSteps = c.muteSteps - 1
          /\ c.muteSteps = 0 =>
               /\ ~c.muted
               /\ c.step % 4 = 0 => c.kick
               /\ next.muteSteps = 0
          /\ next.step = (IF c.step < 15 THEN c.step + 1 ELSE 0)
          /\ next.barCounter = (IF c.step < 15 THEN c.barCounter
                                ELSE (c.barCounter + 1) % 64)
  /\ (state.muteSteps > 0 \/ silentSteps > 0) => silentSteps + state.muteSteps = 4
  /\ state.muteSteps \in 0 .. 4

C5_Witness ==
  /\ last.op = "tick"
  /\ silentSteps = 4
  /\ calls # <<>>
  /\ calls[Len(calls)].muteSteps = 0
  /\ calls[Len(calls)].step = 4
  /\ calls[Len(calls)].kick

\* C6 as stated: a wrong answer while RUNNING sets muteSteps to 4, a wrong
\* answer while STOPPED leaves it unchanged.
C6_MuteWhenRunning ==
  [][last'.op = "wrong" =>
       IF running THEN state'.muteSteps = 4
       ELSE state'.muteSteps = state.muteSteps]_vars

\* C6 amended: a wrong answer while RUNNING with SFX enabled sets muteSteps
\* to 4; a wrong answer while STOPPED, or with SFX disabled, leaves it
\* unchanged.
C6_MuteWhenRunningWithSfx ==
  [][last'.op = "wrong" =>
       IF running /\ state.soundEnabled THEN state'.muteSteps = 4
       ELSE state'.muteSteps = state.muteSteps]_vars

C6_Witness ==
  /\ last.op = "wrong"
  /\ last.running
  /\ state.soundEnabled
  /\ state.muteSteps = 4
  /\ silentSteps = 0

\* C7: every unmuted step on which kick or snare fired gets a pulse timeout of
\* its own, due at that step's time, carrying exactly that step's flags.
C7_OwnPulsePerStep ==
  \A i \in DOMAIN calls :
    (calls[i].kick \/ calls[i].snare) =>
      /\ calls[i].timer = "new"
      /\ calls[i].hits = [kick |-> calls[i].kick, snare |-> calls[i].snare]

\* C8: while the sequencer is stopped no lookahead or pulse timer is
\* pending, the handles and the merged flags are cleared, and neither a tick
\* (a scheduleStep call, a move of the transport by the sequencer) nor a
\* pulse timeout runs.
C8_StopCancels ==
  /\ ~running =>
       /\ DOMAIN timers = {}
       /\ timerId = NULL
       /\ uiPulseTimer = NULL
       /\ uiPulseHits = noHits
  /\ last.op \in {"tick", "pulse"} => last.running /\ running
  /\ calls # <<>> => last.op = "tick"
  /\ pulse # "none" => last.op = "pulse" /\ pulse # "discarded"
  /\ last.op \in {"stop"} => ~running

C8_Witness ==
  /\ last.op = "stop"
  /\ last.running
  /\ last.pulsePending
  /\ state.step > 0

\* C9: start() while RUNNING and stop() while STOPPED change nothing.
C9_NoOps ==
  [][((last'.op = "start" /\ running) \/ (last'.op = "stop" /\ ~running)) =>
       UNCHANGED <<state, audioCtx, timerId, running, nextTime, uiPulseTimer,
                   uiPulseHits, timers, resumePending, nextTimers>>]_vars

C9_Witness ==
  /\ last.op = "start"
  /\ last.running
  /\ last.pulsePending
  /\ state.step > 0

\* C10: between operations drumLevel is the two-threshold step function of
\* stageCorrect (thresholds 10 and 20) and bgmStage is
\* min(floor(stageCorrect / 5), 3); both functions are non-decreasing.
C10_BeatFollowsStageCorrect ==
  /\ state.drumLevel = (IF state.stageCorrect < 10 THEN 0
                        ELSE IF state.stageCorrect < 20 THEN 1 ELSE 2)
  /\ state.bgmStage = (IF state.stageCorrect \div 5 < 3
                       THEN state.stageCorrect \div 5 ELSE 3)
  /\ \A n \in 0 .. state.stageCorrect :
       /\ computeDrumLevel(n) <= state.drumLevel
       /\ computeBgmStage(n) <= state.bgmStage

C10_Witness == state.stageCorrect = 19 /\ state.drumLevel = 1 /\ state.bgmStage = 3

\* C11: every scheduleStep call, muted or not, advances the transport by
\* exactly one step with carry: step + 1 below step 15, otherwise step 0 of
\* bar (barCounter + 1) mod 64, so that step 15 of bar 63 is followed by step
\* 0 of bar 0; and 0 <= step < 16, 0 <= barCounter < 64 in every state.
C11_TransportCarry ==
  /\ \A i \in DOMAIN calls :
       LET c == calls[i]
           next == callLeft(i)
       IN /\ c.step \in 0 .. 15 /\ c.barCounter \in 0 .. 63
          /\ c.step < 15 => next.step = c.step + 1 /\ next.barCounter = c.barCounter
          /\ c.step = 15 => next.step = 0 /\ next.barCounter = (c.barCounter + 1) % 64
          /\ (c.step = 15 /\ c.barCounter = 63) => next.step = 0 /\ next.barCounter = 0
  /\ state.step \in 0 .. 15
  /\ state.barCounter \in 0 .. 63

C11_Witness ==
  /\ last.op = "tick"
  /\ calls # <<>>
  /\ calls[Len(calls)].step = 15
  /\ calls[Len(calls)].barCounter = 63
  /\ state.step = 0
  /\ state.barCounter = 0

\* C12: submitting an empty or non-integer answer (the empty text, blanks,
\* letters, a lone sign, digits around a blank, a decimal point: parseAnswer
\* returns null or NaN) changes no state: the counters, the difficulty stage
\* and profile, drumLevel, bgmStage, muteSteps, the transport, currentAnswer
\* and the sequencer are as before, no cue is played, and no new problem is
\* scheduled.
C12_InvalidInputChangesNothing ==
  [][last'.op = "invalid" =>
       /\ state' = state
       /\ running' = running
       /\ UNCHANGED <<audioCtx, timerId, nextTime, uiPulseTimer, uiPulseHits, timers,
                      resumePending>>
       /\ nextTimers' = nextTimers
       /\ cues' = {}
       /\ parseAnswer(<<>>).kind = "null"
       /\ parseAnswer(<<" ">>).kind = "null"
       /\ \A raw \in {<<"a">>, <<"-">>, <<"1", "a">>, <<"1", " ", "2">>, <<"1", ".", "5">>} :
            parseAnswer(raw).kind = "NaN"]_vars

C12_Witness ==
  /\ last.op = "invalid"
  /\ last.running
  /\ state.stageCorrect = 7
  /\ state.step > 0
  /\ nextTimers > 0

\* C13: no failure propagates out of the per-step scheduling and none halts
\* the beat: when a voice fails during a scheduleStep call the tick is not
\* left by the failure, the transport and the cursor still advance for that
\* step, and the tick goes on to the scheduling horizon.
C13_FailureSwallowed ==
  /\ last.op # "tickThrew"
  /\ \A i \in DOMAIN calls :
       /\ callLeft(i).step = (calls[i].step + 1) % 16
       /\ i = Len(calls) => nextTime = calls[i].time + 125
  /\ calls # <<>> => nextTime >= 150

\* C14: on a correct answer the BGM-switch cue is played and the transport
\* is reset to (0, 0) exactly when bgmStage recomputed from the incremented
\* stageCorrect differs from the bgmStage before, which is exactly when
\* stageCorrect becomes 5, 10 or 15; a correct answer that neither changes
\* bgmStage nor clears the stage leaves the transport as it was and plays no
\* BGM-switch cue.
C14_BgmSwitchIffStageChanges ==
  [][last'.op = "correct" =>
       LET differs == computeBgmStage(state.stageCorrect + 1) # state.bgmStage
           switched == /\ "playBgmSwitchSe" \in cues'
                       /\ state'.step = 0
                       /\ state'.barCounter = 0
       IN /\ switched <=> differs
          /\ "playBgmSwitchSe" \in cues' <=> differs
          /\ differs <=> state.stageCorrect + 1 \in {5, 10, 15}
          /\ differs => state'.bgmStage = (state.stageCorrect + 1) \div 5
          /\ (~differs /\ ~stageCleared') =>
               /\ state'.step = state.step
               /\ state'.barCounter = state.barCounter
               /\ state'.bgmStage = state.bgmStage]_vars

C14_Witness ==
  /\ last.op = "correct"
  /\ last.running
  /\ "playBgmSwitchSe" \in cues
  /\ state.stageCorrect = 15
  /\ state.difficultyStage = 1
  /\ state.step = 0

\* the lookahead interval timers that are set
tickTimers == {i \in DOMAIN timers : timers[i].kind = "tick"}

\* C15: start() never sets the sequencer RUNNING nor sets the lookahead
\* interval while the audio context is suspended: on a suspended context it
\* only waits for ctx.resume(), STOPPED -> RUNNING then happens only when the
\* resume has completed, every operation run while the context is suspended
\* finds the sequencer STOPPED, and a failed resume leaves it STOPPED with no
\* lookahead interval.
C15_StartAwaitsResume ==
  [][/\ audioCtx' # "running" =>
          ~running' /\ timerId' = NULL /\ {i \in DOMAIN timers' : timers'[i].kind = "tick"} = {}
     /\ (~running /\ running') =>
          /\ audioCtx' = "running"
          /\ audioCtx = "suspended" => last'.op = "resumed"
     /\ (last'.op \in {"start", "drumToggle"} /\ audioCtx' = "suspended") =>
          /\ ~running'
          /\ resumePending' = resumePending + 1
          /\ UNCHANGED <<timerId, nextTime, timers>>
     /\ audioCtx = "suspended" => ~last'.running
     /\ last'.op = "resumeFailed" =>
          /\ ~running'
          /\ timerId' = NULL
          /\ timers' = noTimers]_vars

C15_Witness ==
  /\ last.op = "resumed"
  /\ ~last.running
  /\ running
  /\ audioCtx = "running"
  /\ tickTimers = {timerId}
  /\ resumePending = 1

\* C16: within one RUNNING session the times passed to scheduleStep start
\* at the audio clock at start + 50 ms, are spaced by exactly 125 ms within a
\* tick and from one tick to the next (so none is scheduled twice), each is
\* less than the audio clock at its tick + 150 ms, and when a tick returns
\* the cursor is at least the audio clock + 150 ms.  Times are relative to
\* the audio clock: a tick or a pulse timeout that runs d ms after the step
\* before finds the cursor d ms closer.
C16_StepTimes ==
  [][/\ (~running /\ running') => nextTime' = 50
     /\ last'.op = "tick" =>
          \E d \in timers[timerId].due .. timers[timerId].due + MaxLate * lookaheadMs :
            LET first == nextTime - d
            IN /\ \A i \in DOMAIN calls' :
                    /\ calls'[i].time = first + (i - 1) * 125
                    /\ calls'[i].time < 150
               /\ nextTime' = first + Len(calls') * 125
               /\ nextTime' >= 150
     /\ last'.op = "pulse" => nextTime' = nextTime - timers[uiPulseTimer].due
     /\ (last'.op \notin {"tick", "pulse"} /\ ~(~running /\ running')) =>
          nextTime' = nextTime]_vars

C16_Witness ==
  /\ last.op = "tick"
  /\ Len(calls) = 2
  /\ calls[1].time = 10
  /\ calls[2].time = 135
  /\ nextTime = 260
  /\ state.step = 2

\* C17: on every unmuted scheduleStep call the voices are a function of
\* (step, bgmStage, drumLevel, barCounter): the kick sounds on every step
\* that is a multiple of 4 whatever bgmStage and drumLevel are, and on every
\* step on which it sounds at a lower bgmStage; the hi-hat sounds exactly
\* when drumLevel >= 1, on the even steps below bgmStage 3 and on every step
\* at bgmStage 3; the snare sounds exactly when drumLevel = 2, on steps 4
\* and 12, and on step 15 when bgmStage = 3 and barCounter mod 4 = 3.
C17_VoicePattern ==
  \A i \in DOMAIN calls :
    LET c == calls[i]
    IN ~c.muted =>
         /\ c.step % 4 = 0 => c.kick
         /\ \A b \in 0 .. state.bgmStage :
              kickHit([step |-> c.step, bgmStage |-> b]) => c.kick
         /\ c.kick <=> \/ c.step % 4 = 0
                       \/ state.bgmStage >= 1 /\ c.step \in {10, 14}
                       \/ state.bgmStage >= 2 /\ c.step = 7
                       \/ state.bgmStage >= 3 /\ c.step \in {3, 11}
         /\ c.hat <=> /\ state.drumLevel >= 1
                      /\ state.bgmStage = 3 \/ c.step % 2 = 0
         /\ c.snare <=> /\ state.drumLevel = 2
                        /\ \/ c.step \in {4, 12}
                           \/ c.step = 15 /\ state.bgmStage = 3 /\ c.barCounter % 4 = 3

C17_Witness ==
  /\ last.op = "tick"
  /\ state.bgmStage = 3
  /\ state.drumLevel = 2
  /\ \E i \in DOMAIN calls :
       /\ calls[i].step = 15
       /\ calls[i].barCounter = 3
       /\ calls[i].snare
       /\ calls[i].hat
       /\ ~calls[i].kick

\* the pulse timeouts that are pending
pulseTimers == {i \in DOMAIN timers : timers[i].kind = "pulse"}

\* C18: in every reachable state, whatever the interleaving of ticks, pulse
\* timeouts, start and stop, at most one pulse timeout is pending (the one
\* uiPulseTimer names), one is pending only while the sequencer is RUNNING,
\* and the merged hit flags are all false when none is pending.
C18_OnePulseTimer ==
  /\ Cardinality(pulseTimers) <= 1
  /\ pulseTimers = (IF uiPulseTimer = NULL THEN {} ELSE {uiPulseTimer})
  /\ pulseTimers # {} => running
  /\ pulseTimers = {} => ~uiPulseHits.kick /\ ~uiPulseHits.snare

C18_Witness ==
  /\ last.op = "tick"
  /\ Cardinality(pulseTimers) = 1
  /\ \E i \in DOMAIN calls : calls[i].kick /\ calls[i].timer = "merged"

\* C19: in every reachable state between operations
\* correctTotal = 20 * difficultyStage + stageCorrect and
\* 0 <= stageCorrect <= 19, whatever the sequence of correct answers, wrong
\* answers and resets.
C19_CountersAgree ==
  /\ state.correctTotal = 20 * state.difficultyStage + state.stageCorrect
  /\ 0 <= state.stageCorrect
  /\ state.stageCorrect <= 19

C19_Witness ==
  /\ last.op = "correct"
  /\ state.correctTotal = 41
  /\ state.difficultyStage = 2
  /\ state.stageCorrect = 1

\* C20: under any interleaving of BGM-toggle clicks with ctx.resume()
\* completions, several start() calls waiting at once included, at most one
\* lookahead interval is set, one is set if and only if the sequencer is
\* RUNNING (it is the one timerId names), and no tick runs, and no
\* scheduleStep call is made, while the sequencer is STOPPED.
C20_OneIntervalIffRunning ==
  /\ Cardinality(tickTimers) <= 1
  /\ tickTimers # {} <=> running
  /\ tickTimers = (IF timerId = NULL THEN {} ELSE {timerId})
  /\ last.op = "tick" => last.running
  /\ calls # <<>> => running

C20_Witness ==
  /\ last.op = "resumed"
  /\ last.running
  /\ running
  /\ resumePending = 0
  /\ Cardinality(tickTimers) = 1
  /\ state.step > 0

\* C21: each generated problem is credited at most once: a submission of
\* the answer that follows a correct submission directly, before the delayed
\* newProblem has run, does not raise correctTotal and stageCorrect again,
\* and at most one newProblem timeout is pending at any time.
C21_CreditedOnce ==
  [][/\ nextTimers' <= 1
     /\ (last.op = "correct" /\ last'.op = "correct") =>
          /\ state'.correctTotal = state.correctTotal
          /\ state'.stageCorrect = state.stageCorrect]_vars

\* a tick has just triggered a kick
kickTriggered == last.op = "tick" /\ \E i \in DOMAIN calls : calls[i].kick

\* C22: if from some point on the sequencer stays RUNNING and no wrong
\* answer is given any more, then, the ticks firing on and on, muteSteps
\* reaches 0 and stays 0, a kick is triggered again and again, and the
\* transport is at step 0 again and again.
C22_BeatGoesOn ==
  <>[](running /\ last.op # "wrong") =>
    /\ <>[](state.muteSteps = 0)
    /\ []<>kickTriggered
    /\ []<>(state.step = 0)

C22_Witness ==
  /\ kickTriggered
  /\ running
  /\ state.soundEnabled
  /\ silentSteps = 4
  /\ state.muteSteps = 0
  /\ state.barCounter = 1

=============================================================================
